---------------------------- MODULE Spec2Model ----------------------------
(***************************************************************************)
(* Document deduplication and sanitization pipeline:                       *)
(*   - near-duplicate detection with MinHash signatures and a banded LSH   *)
(*     index (DataCleaner.deduplicate_minhash, minhash_deduplication),     *)
(*   - PII redaction (DataCleaner.remove_pii, strip_pii),                  *)
(*   - repetitive n-gram compression (both remove_repetitive_ngrams).      *)
(* A text is a sequence of one-character strings; a document list is a     *)
(* sequence of texts.                                                      *)
(***************************************************************************)
EXTENDS Integers, Sequences, FiniteSets, TLC

VARIABLES
    pc,           \* position of the running function
    detector,     \* "DataCleaner" (main.py) or "class_3" (class_3.py)
    documents,    \* the input list of the near-duplicate detector
    threshold,    \* similarity threshold, in tenths
    permutations, \* the hash permutations of MinHash, one per signature row
    i,            \* loop index of the detector (enumerate)
    lsh,          \* the MinHashLSH index: keys and hashtables
    doc_hashes,   \* DataCleaner only: doc id -> signature of accepted documents
    unique_docs,  \* the accepted documents, in order
    text,         \* the input of a text function
    window,       \* n / max_ngram of the repetition compressor
    rep_threshold,\* threshold of the repetition compressor
    hist,         \* the successive results of the text functions applied
    ops,          \* the names of the text functions applied, in order
    input_documents, \* the argument of process_pipeline
    stats,        \* DataCleaner.stats
    stages,       \* the stage calls of process_pipeline: name, input, output
    bs4_script_text, \* whether get_text() of the installed bs4 yields script text
    lang_filter,  \* "DataCleaner" (detect_language) or "class_3"
    raw_docs,     \* the input list of the language filter
    doc_idx,      \* the number of documents the language filter has handled
    filtered_docs,\* the documents the language filter has kept, in order
    lang_log,     \* per handled document: detector called, its result, kept
    runs          \* the process_pipeline runs on one DataCleaner, each with its locals

vars == <<pc, detector, documents, threshold, permutations, i, lsh, doc_hashes,
          unique_docs, text, window, rep_threshold, hist, ops,
          input_documents, stats, stages, bs4_script_text, lang_filter,
          raw_docs, doc_idx, filtered_docs, lang_log, runs>>

dedupVars == <<detector, documents, threshold, permutations, i, lsh, doc_hashes,
               unique_docs>>
textVars == <<text, window, rep_threshold, hist, ops>>
pipeVars == <<input_documents, stats, stages, runs>>
langVars == <<bs4_script_text, lang_filter, raw_docs, doc_idx, filtered_docs, lang_log>>

-----------------------------------------------------------------------------
(* Bounds of the model *)

MaxDocs == 3
NumPerm == 4
MaxChunks == 3
MaxWords == 4
MaxCalls == 2

-----------------------------------------------------------------------------
(* Characters and Python string primitives *)

UpperLetters == <<"A","B","C","D","E","F","G","H","I","J","K","L","M",
                  "N","O","P","Q","R","S","T","U","V","W","X","Y","Z">>
LowerLetters == <<"a","b","c","d","e","f","g","h","i","j","k","l","m",
                  "n","o","p","q","r","s","t","u","v","w","x","y","z">>
Digits == {"0","1","2","3","4","5","6","7","8","9"}

Range(s) == {s[k] : k \in DOMAIN s}

IsUpper(c) == c \in Range(UpperLetters)
IsLower(c) == c \in Range(LowerLetters)
IsLetter(c) == IsUpper(c) \/ IsLower(c)
IsDigit(c) == c \in Digits
\* \w of the re module
IsWordChar(c) == IsLetter(c) \/ IsDigit(c) \/ c = "_"
\* \s of the re module and the separators of str.split()
IsSpace(c) == c \in {" ", "\n", "\t"}

\* str.lower() on one character
LowerChar(c) ==
    IF IsUpper(c)
    THEN LowerLetters[CHOOSE k \in DOMAIN UpperLetters : UpperLetters[k] = c]
    ELSE c

\* str.lower()
Lower(s) == [k \in DOMAIN s |-> LowerChar(s[k])]

SetMin(S) == CHOOSE x \in S : \A y \in S : x <= y
SetMax(S) == CHOOSE x \in S : \A y \in S : y <= x

\* the end (exclusive) of the run of non-space characters that starts at p
RECURSIVE WordEnd(_, _)
WordEnd(s, p) ==
    IF p > Len(s) \/ IsSpace(s[p]) THEN p ELSE WordEnd(s, p + 1)

\* str.split(): the maximal runs of non-whitespace characters, in order
RECURSIVE SplitFrom(_, _)
SplitFrom(s, p) ==
    IF p > Len(s) THEN <<>>
    ELSE IF IsSpace(s[p]) THEN SplitFrom(s, p + 1)
    ELSE <<SubSeq(s, p, WordEnd(s, p) - 1)>> \o SplitFrom(s, WordEnd(s, p))

Split(s) == SplitFrom(s, 1)

\* len(doc.split())
TokenCount(s) == Len(Split(s))

-----------------------------------------------------------------------------
(* Regular expressions of the re module, as matchers on a text.  A matcher *)
(* gives the end (exclusive) of the match that starts at position p, or 0  *)
(* when the pattern does not match there.                                  *)

IsWordAt(s, p) == p >= 1 /\ p <= Len(s) /\ IsWordChar(s[p])

\* \b between s[p-1] and s[p]
WordBoundary(s, p) == IsWordAt(s, p - 1) # IsWordAt(s, p)

InClass(cls, c) ==
    CASE cls = "digit" -> IsDigit(c)
      [] cls = "space" -> IsSpace(c)
      \* [\w\.-]
      [] cls = "c3_mail" -> IsWordChar(c) \/ c \in {".", "-"}
      \* [A-Za-z0-9._%+-]
      [] cls = "local" -> IsLetter(c) \/ IsDigit(c) \/ c \in {".", "_", "%", "+", "-"}
      \* [A-Za-z0-9.-]
      [] cls = "domain" -> IsLetter(c) \/ IsDigit(c) \/ c \in {".", "-"}
      \* [A-Z|a-z]
      [] cls = "tld" -> IsLetter(c) \/ c = "|"

\* the end (exclusive) of the longest run of cls characters that starts at p
RECURSIVE RunEnd(_, _, _)
RunEnd(cls, s, p) ==
    IF p <= Len(s) /\ InClass(cls, s[p]) THEN RunEnd(cls, s, p + 1) ELSE p

\* \d{n} at p
DigitsAt(s, p, n) == p + n - 1 <= Len(s) /\ \A k \in p..(p + n - 1) : IsDigit(s[k])

CharAt(s, p, c) == p <= Len(s) /\ s[p] = c

\* [-\s]? and [-.\s]? at p: the position after the optional separator
SkipSep(s, p, seps) == IF p <= Len(s) /\ (s[p] \in seps \/ IsSpace(s[p])) THEN p + 1 ELSE p

CardMinDigits == 12
CardMaxDigits == 19

\* class_3: [\w\.-]+@[\w\.-]+
C3EmailAt(s, p) ==
    LET j == RunEnd("c3_mail", s, p)
        e == RunEnd("c3_mail", s, j + 1)
    IN  IF j > p /\ CharAt(s, j, "@") /\ e > j + 1 THEN e ELSE 0

\* class_3: \b\d{12,19}\b
C3CardAt(s, p) ==
    LET j == RunEnd("digit", s, p)
    IN  IF /\ WordBoundary(s, p)
           /\ j - p >= CardMinDigits
           /\ j - p <= CardMaxDigits
           /\ WordBoundary(s, j)
        THEN j ELSE 0

\* class_3: \b(?:\d{3}-){2}\d{4}\b
C3PhoneAt(s, p) ==
    IF /\ WordBoundary(s, p)
       /\ DigitsAt(s, p, 3) /\ CharAt(s, p + 3, "-")
       /\ DigitsAt(s, p + 4, 3) /\ CharAt(s, p + 7, "-")
       /\ DigitsAt(s, p + 8, 4)
       /\ WordBoundary(s, p + 12)
    THEN p + 12 ELSE 0

\* main: \b[A-Za-z0-9._%+-]+@[A-Za-z0-9.-]+\.[A-Z|a-z]{2,}\b
\* the domain is taken as long as possible, then the top-level part
MainEmailAt(s, p) ==
    LET j == RunEnd("local", s, p)
        dmax == RunEnd("domain", s, j + 1)
        \* the ends of a top-level part that starts after the dot at d
        Tops(d) == {e \in (d + 3)..RunEnd("tld", s, d + 1) : WordBoundary(s, e)}
        dots == {d \in (j + 2)..dmax : CharAt(s, d, ".") /\ Tops(d) # {}}
    IN  IF WordBoundary(s, p) /\ j > p /\ CharAt(s, j, "@") /\ dots # {}
        THEN SetMax(Tops(SetMax(dots))) ELSE 0

\* \d{4}[-\s]? at p
CardGroup(s, p) == IF p > 0 /\ DigitsAt(s, p, 4) THEN SkipSep(s, p + 4, {"-"}) ELSE 0

\* main: \b(?:\d{4}[-\s]?){3}\d{4}\b
MainCardAt(s, p) ==
    LET q == CardGroup(s, CardGroup(s, CardGroup(s, p)))
    IN  IF WordBoundary(s, p) /\ q > 0 /\ DigitsAt(s, q, 4) /\ WordBoundary(s, q + 4)
        THEN q + 4 ELSE 0

\* \(?[0-9]{3}\)?[-.\s]?[0-9]{3}[-.\s]?[0-9]{4}\b at q
PhoneRest(s, q) ==
    LET a == IF CharAt(s, q, "(") THEN q + 1 ELSE q
        b == IF CharAt(s, a + 3, ")") THEN a + 4 ELSE a + 3
        c == SkipSep(s, b, {"-", "."})
        d == SkipSep(s, c + 3, {"-", "."})
    IN  IF /\ DigitsAt(s, a, 3) /\ DigitsAt(s, c, 3) /\ DigitsAt(s, d, 4)
           /\ WordBoundary(s, d + 4)
        THEN d + 4 ELSE 0

\* (?:\+?1[-.\s]?) at p: the position after the country code, or 0
PhonePrefix(s, p) ==
    LET a == IF CharAt(s, p, "+") THEN p + 1 ELSE p
    IN  IF CharAt(s, a, "1") THEN SkipSep(s, a + 1, {"-", "."}) ELSE 0

\* main: \b(?:\+?1[-.\s]?)?\(?[0-9]{3}\)?[-.\s]?[0-9]{3}[-.\s]?[0-9]{4}\b
\* first with the country code, then without it
MainPhoneAt(s, p) ==
    LET q == PhonePrefix(s, p)
    IN  IF ~WordBoundary(s, p) THEN 0
        ELSE IF q > 0 /\ PhoneRest(s, q) > 0 THEN PhoneRest(s, q)
        ELSE PhoneRest(s, p)

\* main: \b\d{3}-\d{2}-\d{4}\b
MainSsnAt(s, p) ==
    IF /\ WordBoundary(s, p)
       /\ DigitsAt(s, p, 3) /\ CharAt(s, p + 3, "-")
       /\ DigitsAt(s, p + 4, 2) /\ CharAt(s, p + 6, "-")
       /\ DigitsAt(s, p + 7, 4)
       /\ WordBoundary(s, p + 11)
    THEN p + 11 ELSE 0

\* the occurrence of the literal lit at p
LiteralAt(lit, s, p) ==
    IF p + Len(lit) - 1 <= Len(s) /\ SubSeq(s, p, p + Len(lit) - 1) = lit
    THEN p + Len(lit) ELSE 0

\* (?:phrase\s*)* from p: <<number of repetitions, end>>
RECURSIVE PhraseRun(_, _, _, _)
PhraseRun(phrase, s, p, count) ==
    IF LiteralAt(phrase, s, p) > 0
    THEN PhraseRun(phrase, s, RunEnd("space", s, LiteralAt(phrase, s, p)), count + 1)
    ELSE <<count, p>>

\* class_3: (?:phrase\s*){t,}
PhraseRunAt(phrase, t, s, p) ==
    LET r == PhraseRun(phrase, s, p, 0)
    IN  IF r[1] >= t /\ r[1] >= 1 THEN r[2] ELSE 0

\* \s{2,}
SpacesAt(s, p) == IF RunEnd("space", s, p) >= p + 2 THEN RunEnd("space", s, p) ELSE 0

\* \s+
SpaceRunAt(s, p) == IF RunEnd("space", s, p) >= p + 1 THEN RunEnd("space", s, p) ELSE 0

MatchAt(pat, s, p) ==
    CASE pat[1] = "c3_email" -> C3EmailAt(s, p)
      [] pat[1] = "c3_card" -> C3CardAt(s, p)
      [] pat[1] = "c3_phone" -> C3PhoneAt(s, p)
      [] pat[1] = "email" -> MainEmailAt(s, p)
      [] pat[1] = "credit_card" -> MainCardAt(s, p)
      [] pat[1] = "phone" -> MainPhoneAt(s, p)
      [] pat[1] = "ssn" -> MainSsnAt(s, p)
      [] pat[1] = "phrase_run" -> PhraseRunAt(pat[2], pat[3], s, p)
      [] pat[1] = "spaces" -> SpacesAt(s, p)
      [] pat[1] = "space_run" -> SpaceRunAt(s, p)
      [] pat[1] = "literal" -> LiteralAt(pat[2], s, p)

\* the start of the leftmost match at or after p, or 0
NextMatch(pat, s, p) ==
    LET starts == {q \in p..Len(s) : MatchAt(pat, s, q) > q}
    IN  IF starts = {} THEN 0 ELSE SetMin(starts)

\* re.sub(pat, repl, s, count=1): only the leftmost match is replaced
ReSub_FirstOnly(pat, repl, s) ==
    LET q == NextMatch(pat, s, 1)
    IN  IF q = 0 THEN s
        ELSE SubSeq(s, 1, q - 1) \o repl \o SubSeq(s, MatchAt(pat, s, q), Len(s))

\* re.sub(pat, repl, s) from position p on: the leftmost match is replaced
\* and the search goes on after it
RECURSIVE SubFrom(_, _, _, _)
SubFrom(pat, repl, s, p) ==
    LET q == NextMatch(pat, s, p)
    IN  IF q = 0 THEN SubSeq(s, p, Len(s))
        ELSE SubSeq(s, p, q - 1) \o repl \o SubFrom(pat, repl, s, MatchAt(pat, s, q))

ReSub(pat, repl, s) == SubFrom(pat, repl, s, 1)

\* pattern.findall(s) is not empty
HasMatch(pat, s) == NextMatch(pat, s, 1) > 0

-----------------------------------------------------------------------------
(* The PII redactors *)

EMAIL ==
    <<"[","E","M","A","I","L","]">>
CREDIT_CARD ==
    <<"[","C","R","E","D","I","T","_","C","A","R","D","]">>
PHONE ==
    <<"[","P","H","O","N","E","]">>
\* a placeholder of two words
EMAIL_REMOVED_TwoWords ==
    <<"[","E","M","A","I","L"," ","R","E","M","O","V","E","D","]">>

EMAIL_REMOVED ==
    <<"[","E","M","A","I","L","_","R","E","M","O","V","E","D","]">>
CREDIT_CARD_REMOVED ==
    <<"[","C","R","E","D","I","T","_","C","A","R","D","_","R","E","M","O",
      "V","E","D","]">>
PHONE_REMOVED ==
    <<"[","P","H","O","N","E","_","R","E","M","O","V","E","D","]">>
SSN_REMOVED ==
    <<"[","S","S","N","_","R","E","M","O","V","E","D","]">>

\* strip_pii without the phone substitution
strip_pii_NoPhone(t) ==
    ReSub(<<"c3_card">>, CREDIT_CARD, ReSub(<<"c3_email">>, EMAIL, t))

\* class_3.strip_pii
strip_pii(t) ==
    LET t1 == ReSub(<<"c3_email">>, EMAIL, t)
        t2 == ReSub(<<"c3_card">>, CREDIT_CARD, t1)
    IN  ReSub(<<"c3_phone">>, PHONE, t2)

\* pii_patterns without the credit card entry
pii_patterns_NoCard ==
    << <<"email", EMAIL_REMOVED>>, <<"phone", PHONE_REMOVED>>, <<"ssn", SSN_REMOVED>> >>

\* DataCleaner.pii_patterns: the patterns and placeholders, in dict order
pii_patterns ==
    << <<"email", EMAIL_REMOVED>>, <<"credit_card", CREDIT_CARD_REMOVED>>,
       <<"phone", PHONE_REMOVED>>, <<"ssn", SSN_REMOVED>> >>

\* the loop over pii_patterns.items() from pattern k on
RECURSIVE RemovePiiFrom(_, _)
RemovePiiFrom(cleaned_doc, k) ==
    IF k > Len(pii_patterns) THEN cleaned_doc
    ELSE IF HasMatch(<<pii_patterns[k][1]>>, cleaned_doc)
         THEN RemovePiiFrom(ReSub(<<pii_patterns[k][1]>>, pii_patterns[k][2], cleaned_doc), k + 1)
         ELSE RemovePiiFrom(cleaned_doc, k + 1)

\* remove_pii that lowercases the document first
remove_pii_doc_Lowered(doc) == RemovePiiFrom(Lower(doc), 1)

\* DataCleaner.remove_pii on one document
remove_pii_doc(doc) == RemovePiiFrom(doc, 1)

-----------------------------------------------------------------------------
(* The repetition compressors *)

\* ' '.join(words)
RECURSIVE Join(_)
Join(words) ==
    IF words = <<>> THEN <<>>
    ELSE IF Len(words) = 1 THEN words[1]
    ELSE words[1] \o <<" ">> \o Join(Tail(words))

\* [words[i:i+n] for i in range(len(words) - n + 1)]
Ngrams(words, n) == [k \in 1..(Len(words) - n + 1) |-> SubSeq(words, k, k + n - 1)]

\* Counter(ngrams)[g]
CountOf(ngrams, g) == Cardinality({k \in DOMAIN ngrams : ngrams[k] = g})

\* the keys of Counter(ngrams) with count >= th, in insertion order, from k on
RECURSIVE RepetitiveFrom(_, _, _)
RepetitiveFrom(ngrams, th, k) ==
    IF k > Len(ngrams) THEN <<>>
    ELSE (IF /\ \A j \in 1..(k - 1) : ngrams[j] # ngrams[k]
             /\ CountOf(ngrams, ngrams[k]) >= th
          THEN <<ngrams[k]>> ELSE <<>>) \o RepetitiveFrom(ngrams, th, k + 1)

Repetitive(ngrams, th) == RepetitiveFrom(ngrams, th, 1)

\* str.strip()
Strip(s) ==
    LET solid == {q \in 1..Len(s) : ~IsSpace(s[q])}
    IN  IF solid = {} THEN <<>> ELSE SubSeq(s, SetMin(solid), SetMax(solid))

\* class_3: the loop over the repetitive phrases, from phrase k on
RECURSIVE CollapseRuns(_, _, _, _)
CollapseRuns(t, phrases, th, k) ==
    IF k > Len(phrases) THEN t
    ELSE CollapseRuns(
            ReSub(<<"phrase_run", Join(phrases[k]), th>>, Join(phrases[k]) \o <<" ">>, t),
            phrases, th, k + 1)

\* class_3.remove_repetitive_ngrams(text, n, threshold)
remove_repetitive_ngrams(t, n, th) ==
    LET words == Split(t)
        repetitive == Repetitive(Ngrams(words, n), th)
    IN  Strip(ReSub(<<"spaces">>, <<" ">>, CollapseRuns(t, repetitive, th, 1)))

\* the first position >= p where lit occurs in s, or 0
Find(lit, s, p) == NextMatch(<<"literal", lit>>, s, p)

\* parts = doc.split(ngram_str); parts[0] + ngram_str + ''.join(parts[1:])
KeepFirst(doc, ngram_str) ==
    LET p == Find(ngram_str, doc, 1)
        e == p + Len(ngram_str)
    IN  IF p = 0 THEN doc
        ELSE SubSeq(doc, 1, e - 1) \o
             ReSub(<<"literal", ngram_str>>, <<>>, SubSeq(doc, e, Len(doc)))

\* main: the loop over ngram_counts.items(), from n-gram k on
RECURSIVE RemoveLater(_, _, _)
RemoveLater(doc, phrases, k) ==
    IF k > Len(phrases) THEN doc
    ELSE RemoveLater(KeepFirst(doc, Join(phrases[k])), phrases, k + 1)

\* main: the loop for n in range(2, max_ngram + 1), from n on; words is the
\* word list of the document as it came in
RECURSIVE NgramPasses(_, _, _, _, _)
NgramPasses(doc, words, n, max_ngram, th) ==
    IF n > max_ngram THEN doc
    ELSE NgramPasses(RemoveLater(doc, Repetitive(Ngrams(words, n), th), 1),
                     words, n + 1, max_ngram, th)

\* DataCleaner.remove_repetitive_ngrams on one document
remove_repetitive_ngrams_doc(doc, max_ngram, th) ==
    LET words == Split(doc)
    IN  IF Len(words) < max_ngram THEN doc
        ELSE NgramPasses(doc, words, 2, max_ngram, th)

-----------------------------------------------------------------------------
(* MinHash signatures *)

\* the tokens the documents of the detector are made of
Vocabulary == {<<"a">>, <<"b">>}

\* one hash permutation: an injective ranking of the tokens
Rankings == {f \in [Vocabulary -> 1..Cardinality(Vocabulary)] :
                \A x, y \in Vocabulary : x # y => f[x] # f[y]}

\* the initial hash value of every row of a MinHash (no token seen yet)
MaxHash == Cardinality(Vocabulary) + 1

\* a MinHash that starts from the lowest hash value instead of the highest
MinHashOf_EmptyAsLowest(tokens, perms) ==
    [k \in 1..NumPerm |->
        IF tokens = {} THEN 1
        ELSE SetMin({perms[k][t] : t \in tokens})]

\* MinHash(num_perm).update(token) for every token of a collection:
\* row k is the minimum of permutation k over the tokens.
MinHashOf(tokens, perms) ==
    [k \in 1..NumPerm |->
        IF tokens = {} THEN MaxHash
        ELSE SetMin({perms[k][t] : t \in tokens})]

\* DataCleaner.create_minhash: lowercase, split, update with every token
create_minhash(doc, perms) == MinHashOf(Range(Split(Lower(doc))), perms)

\* class_3.minhash_deduplication: update with every word of set(doc.split())
class3_minhash(doc, perms) == MinHashOf(Range(Split(doc)), perms)

Signature(det, doc, perms) ==
    IF det = "DataCleaner" THEN create_minhash(doc, perms)
    ELSE class3_minhash(doc, perms)

-----------------------------------------------------------------------------
(* MinHashLSH *)

\* MinHashLSH(threshold, num_perm): the (bands, rows) that minimise the
\* weighted false positive and false negative areas (weights 0.5, 0.5),
\* tabulated for the thresholds and signature lengths of the model.
OptimalParam(th, np) ==
    CASE np = 4 /\ th <= 3 -> <<4, 1>>
      [] np = 4 /\ th = 4 -> <<2, 1>>
      [] np = 4 /\ th \in {5, 6} -> <<2, 2>>
      [] np = 4 /\ th >= 7 -> <<1, 4>>
      [] np = 5 /\ th <= 2 -> <<5, 1>>
      [] np = 5 /\ th = 3 -> <<4, 1>>
      [] np = 5 /\ th = 4 -> <<2, 1>>
      [] np = 5 /\ th \in {5, 6} -> <<2, 2>>
      [] np = 5 /\ th = 7 -> <<1, 4>>
      [] np = 5 /\ th >= 8 -> <<1, 5>>

Bands(th) == OptimalParam(th, NumPerm)[1]
Rows(th) == OptimalParam(th, NumPerm)[2]

\* the hash of band b (0-based): the signature rows [b*r, (b+1)*r)
BandHash(sig, th, b) == SubSeq(sig, b * Rows(th) + 1, (b + 1) * Rows(th))

EmptyLsh == [keys |-> {}, hashtables |-> {}]

\* insert() that stores nothing
LshInsert_Dropped(l, th, key, sig) == l

\* MinHashLSH.insert(key, minhash)
LshInsert(l, th, key, sig) ==
    [keys |-> l.keys \cup {key},
     hashtables |-> l.hashtables \cup
        {[band |-> b, H |-> BandHash(sig, th, b), key |-> key] :
            b \in 0..(Bands(th) - 1)}]

\* query() that looks into the bucket of the first band only
LshQuery_FirstBandOnly(l, th, sig) ==
    {e.key : e \in {x \in l.hashtables :
                        x.band = 0 /\ x.H = BandHash(sig, th, x.band)}}

\* MinHashLSH.query(minhash): the keys that share a bucket in some band
LshQuery(l, th, sig) ==
    {e.key : e \in {x \in l.hashtables : x.H = BandHash(sig, th, x.band)}}

-----------------------------------------------------------------------------
(* The near-duplicate detector *)

DedupDocs == {<<>>, <<"a">>, <<"b">>, <<"b", " ", "a">>}

Thresholds == {4, 5, 7}

DocLists == UNION {[1..n -> DedupDocs] : n \in 0..MaxDocs}

\* the loop body with the insertion outside the if: a rejected document is
\* inserted as well
DedupIter_InsertAlways(st, det, th, perms, k, doc) ==
    LET minhash == Signature(det, doc, perms)
        similar_docs == LshQuery(st.lsh, th, minhash)
    IN  [lsh |-> LshInsert(st.lsh, th, k, minhash),
         doc_hashes |-> IF det = "DataCleaner"
                        THEN st.doc_hashes \cup {<<k, minhash>>}
                        ELSE st.doc_hashes,
         unique_docs |-> IF similar_docs = {}
                         THEN Append(st.unique_docs, doc)
                         ELSE st.unique_docs]

\* the loop body with the insertion ahead of the query: the query of a
\* document finds the document itself
DedupIter_InsertBeforeQuery(st, det, th, perms, k, doc) ==
    LET minhash == Signature(det, doc, perms)
        similar_docs == LshQuery(LshInsert(st.lsh, th, k, minhash), th, minhash)
    IN  IF similar_docs = {}
        THEN [lsh |-> LshInsert(st.lsh, th, k, minhash),
              doc_hashes |-> st.doc_hashes,
              unique_docs |-> Append(st.unique_docs, doc)]
        ELSE st

\* one iteration of the loop over enumerate(documents), as the state after it
DedupIter(st, det, th, perms, k, doc) ==
    LET minhash == Signature(det, doc, perms)
        similar_docs == LshQuery(st.lsh, th, minhash)
    IN  IF similar_docs = {}
        THEN [lsh |-> LshInsert(st.lsh, th, k, minhash),
              doc_hashes |-> IF det = "DataCleaner"
                             THEN st.doc_hashes \cup {<<k, minhash>>}
                             ELSE st.doc_hashes,
              unique_docs |-> Append(st.unique_docs, doc)]
        ELSE st

DedupStart == [lsh |-> EmptyLsh, doc_hashes |-> {}, unique_docs |-> <<>>]

\* a call that goes on with the index an earlier call left
CallStart_IndexKept(left) == [lsh |-> left.lsh, doc_hashes |-> {}, unique_docs |-> <<>>]

\* the locals when a call starts, whatever an earlier call left: a new
\* MinHashLSH, doc_hashes = {}, unique_docs = []
CallStart(left) == DedupStart

\* the whole loop, from document k (0-based) on
RECURSIVE DedupFrom(_, _, _, _, _, _)
DedupFrom(st, det, th, perms, docs, k) ==
    IF k >= Len(docs) THEN st
    ELSE DedupFrom(DedupIter(st, det, th, perms, k, docs[k + 1]),
                   det, th, perms, docs, k + 1)

\* deduplicate_minhash(documents) / minhash_deduplication(texts, threshold)
deduplicate_minhash(det, th, perms, docs) ==
    DedupFrom(DedupStart, det, th, perms, docs, 0).unique_docs

\* DataCleaner.__init__: the statistics record
ZeroStats ==
    [initial_docs |-> 0, initial_tokens |-> 0, after_language_detection |-> 0,
     after_html_cleaning |-> 0, after_deduplication |-> 0, after_pii_removal |-> 0,
     after_ngram_removal |-> 0, final_tokens |-> 0]

PipeIdle ==
    /\ input_documents = <<>>
    /\ stats = ZeroStats
    /\ stages = <<>>
    /\ runs = <<>>

LangIdle ==
    /\ bs4_script_text = FALSE
    /\ lang_filter = "none"
    /\ raw_docs = <<>>
    /\ doc_idx = 0
    /\ filtered_docs = <<>>
    /\ lang_log = <<>>

TextIdle ==
    /\ text = <<>>
    /\ window = 0
    /\ rep_threshold = 0
    /\ hist = <<>>
    /\ ops = <<>>

InitDedup ==
    /\ pc = "dedup_loop"
    /\ detector \in {"DataCleaner", "class_3"}
    /\ documents \in DocLists
    /\ threshold \in Thresholds
    /\ permutations \in [1..NumPerm -> Rankings]
    /\ i = 0
    /\ lsh = EmptyLsh
    /\ doc_hashes = {}
    /\ unique_docs = <<>>
    /\ TextIdle
    /\ PipeIdle
    /\ LangIdle

CurState == [lsh |-> lsh, doc_hashes |-> doc_hashes, unique_docs |-> unique_docs]

\* the query is empty: insert and emit document i
DedupAccept ==
    /\ pc = "dedup_loop"
    /\ i < Len(documents)
    /\ LshQuery(lsh, threshold, Signature(detector, documents[i + 1], permutations)) = {}
    /\ LET st == DedupIter(CurState, detector, threshold, permutations, i, documents[i + 1])
       IN  /\ lsh' = st.lsh
           /\ doc_hashes' = st.doc_hashes
           /\ unique_docs' = st.unique_docs
    /\ i' = i + 1
    /\ UNCHANGED <<pc, detector, documents, threshold, permutations>>
    /\ UNCHANGED textVars
    /\ UNCHANGED <<pipeVars, langVars>>

\* the query is not empty: skip document i
DedupReject ==
    /\ pc = "dedup_loop"
    /\ i < Len(documents)
    /\ LshQuery(lsh, threshold, Signature(detector, documents[i + 1], permutations)) # {}
    /\ LET st == DedupIter(CurState, detector, threshold, permutations, i, documents[i + 1])
       IN  /\ lsh' = st.lsh
           /\ doc_hashes' = st.doc_hashes
           /\ unique_docs' = st.unique_docs
    /\ i' = i + 1
    /\ UNCHANGED <<pc, detector, documents, threshold, permutations>>
    /\ UNCHANGED textVars
    /\ UNCHANGED <<pipeVars, langVars>>

\* the loop is over: return unique_docs
DedupReturn ==
    /\ pc = "dedup_loop"
    /\ i = Len(documents)
    /\ pc' = "dedup_done"
    /\ UNCHANGED dedupVars
    /\ UNCHANGED textVars
    /\ UNCHANGED <<pipeVars, langVars>>

NextDedup == DedupAccept \/ DedupReject \/ DedupReturn

SpecDedup == InitDedup /\ [][NextDedup]_vars

-----------------------------------------------------------------------------
(* The text functions, applied to one document once and once more *)

EmailChunk ==
    <<"a","@","b",".","c","o">>
PhoneChunk ==
    <<"5","5","5","-","1","2","3","-","4","5","6","7">>
CardChunk ==
    <<"4","5","3","2","1","2","3","4","5","6","7","8","9","0","1","2">>
Scenario ==
    <<"C","o","n","t","a","c","t"," ","m","e"," ","a","t"," ","j","o","h",
      "n","@","e","x","a","m","p","l","e",".","c","o","m"," ","o","r"," ",
      "5","5","5","-","1","2","3","-","4","5","6","7">>
DemoCardText ==
    <<"C","r","e","d","i","t"," ","c","a","r","d",":"," ","4","5","3","2",
      "-","1","2","3","4","-","5","6","7","8","-","9","0","1","2"," ","s",
      "h","o","u","l","d"," ","b","e"," ","r","e","m","o","v","e","d"," ",
      "f","o","r"," ","p","r","i","v","a","c","y",".">>
SpacedCardText ==
    <<"c","a","r","d"," ","4","5","3","2"," ","1","2","3","4"," ","5","6",
      "7","8"," ","9","0","1","2">>

PiiChunks == {EmailChunk, PhoneChunk, CardChunk, <<" ">>, <<"@">>, <<"1">>}

\* the concatenations of at most n chunks
RECURSIVE Concats(_, _)
Concats(chunks, n) ==
    IF n = 0 THEN {<<>>}
    ELSE Concats(chunks, n - 1) \cup
         {c \o t : c \in chunks, t \in Concats(chunks, n - 1)}

TwelveDigits ==
    <<"1","2","3","4","5","6","7","8","9","0","1","2">>
PlainText ==
    <<"N","o","t","h","i","n","g"," ","t","o"," ","r","e","d","a","c","t">>

PiiTexts == Concats(PiiChunks, MaxChunks) \cup
            {Scenario, DemoCardText, SpacedCardText, TwelveDigits, PlainText}

NgramWords == {<<"a">>, <<"b">>}
NgramSeps == {<<" ">>, <<" ", " ">>}

\* the texts of at most n words, separated by one or two spaces
RECURSIVE WordTexts(_)
WordTexts(n) ==
    IF n = 0 THEN {<<>>}
    ELSE IF n = 1 THEN {<<>>} \cup NgramWords
    ELSE WordTexts(n - 1) \cup
         {t \o sep \o w : t \in WordTexts(n - 1) \ {<<>>}, sep \in NgramSeps, w \in NgramWords}

NineWords ==
    <<"b"," ","b"," ","b"," ","a"," ","a"," ","b"," ","b"," ","a"," ","a">>

\* "a b c a b": the bigram "a b" twice, with unrelated text in between
NonAdjacentText ==
    <<"a"," ","b"," ","c"," ","a"," ","b">>

\* demo.py: one sentence three times
DemoRepeatText ==
    <<"M","a","c","h","i","n","e"," ","l","e","a","r","n","i","n","g"," ",
      "i","s"," ","f","a","s","c","i","n","a","t","i","n","g","."," ","M",
      "a","c","h","i","n","e"," ","l","e","a","r","n","i","n","g"," ","i",
      "s"," ","f","a","s","c","i","n","a","t","i","n","g","."," ","M","a",
      "c","h","i","n","e"," ","l","e","a","r","n","i","n","g"," ","i","s",
      " ","f","a","s","c","i","n","a","t","i","n","g",".">>

NgramTexts == WordTexts(MaxWords) \cup {NonAdjacentText, NineWords, DemoRepeatText}

Windows == {2, 3}
RepThresholds == {2, 3}

DedupIdle ==
    /\ detector = "none"
    /\ documents = <<>>
    /\ threshold = 0
    /\ permutations = <<>>
    /\ i = 0
    /\ lsh = EmptyLsh
    /\ doc_hashes = {}
    /\ unique_docs = <<>>

InitText ==
    /\ \/ /\ pc = "pii"
          /\ text \in PiiTexts
          /\ window = 0
          /\ rep_threshold = 0
       \/ /\ pc = "ngram"
          /\ text \in NgramTexts
          /\ window \in Windows
          /\ rep_threshold \in RepThresholds
    /\ hist = <<text>>
    /\ ops = <<>>
    /\ DedupIdle
    /\ PipeIdle
    /\ LangIdle

Last(h) == h[Len(h)]

\* a call of class_3.strip_pii on the current document
StripPii ==
    /\ pc \in {"pii", "pii_once"}
    /\ hist' = Append(hist, strip_pii(Last(hist)))
    /\ ops' = Append(ops, "strip_pii")
    /\ pc' = IF pc = "pii" THEN "pii_once" ELSE "pii_twice"
    /\ UNCHANGED <<text, window, rep_threshold>>
    /\ UNCHANGED dedupVars
    /\ UNCHANGED <<pipeVars, langVars>>

\* a call of DataCleaner.remove_pii on the current document
RemovePii ==
    /\ pc \in {"pii", "pii_once"}
    /\ hist' = Append(hist, remove_pii_doc(Last(hist)))
    /\ ops' = Append(ops, "DataCleaner.remove_pii")
    /\ pc' = IF pc = "pii" THEN "pii_once" ELSE "pii_twice"
    /\ UNCHANGED <<text, window, rep_threshold>>
    /\ UNCHANGED dedupVars
    /\ UNCHANGED <<pipeVars, langVars>>

\* a call of class_3.remove_repetitive_ngrams on the current document
CompressClass3 ==
    /\ pc \in {"ngram", "ngram_once"}
    /\ hist' = Append(hist, remove_repetitive_ngrams(Last(hist), window, rep_threshold))
    /\ ops' = Append(ops, "remove_repetitive_ngrams")
    /\ pc' = IF pc = "ngram" THEN "ngram_once" ELSE "ngram_twice"
    /\ UNCHANGED <<text, window, rep_threshold>>
    /\ UNCHANGED dedupVars
    /\ UNCHANGED <<pipeVars, langVars>>

\* a call of DataCleaner.remove_repetitive_ngrams on the current document
CompressDataCleaner ==
    /\ pc \in {"ngram", "ngram_once"}
    /\ hist' = Append(hist, remove_repetitive_ngrams_doc(Last(hist), window, rep_threshold))
    /\ ops' = Append(ops, "DataCleaner.remove_repetitive_ngrams")
    /\ pc' = IF pc = "ngram" THEN "ngram_once" ELSE "ngram_twice"
    /\ UNCHANGED <<text, window, rep_threshold>>
    /\ UNCHANGED dedupVars
    /\ UNCHANGED <<pipeVars, langVars>>

NextText == StripPii \/ RemovePii \/ CompressClass3 \/ CompressDataCleaner

SpecText == InitText /\ [][NextText]_vars

-----------------------------------------------------------------------------
(* Properties of the near-duplicate detector *)

SigAt(k) == Signature(detector, documents[k + 1], permutations)

\* two signatures agree on every row of some band of the index
Collide(s1, s2, th) ==
    \E b \in 0..(Bands(th) - 1) : BandHash(s1, th, b) = BandHash(s2, th, b)

\* the documents at the (0-based) positions of S, in input order
RECURSIVE SelectAt(_, _, _)
SelectAt(docs, S, k) ==
    IF k >= Len(docs) THEN <<>>
    ELSE (IF k \in S THEN <<docs[k + 1]>> ELSE <<>>) \o SelectAt(docs, S, k + 1)

\* C1: the detector is one greedy pass in input order: a processed document
\* is emitted iff no document accepted before it collides with it in the
\* index; for [A, A', B] with A' colliding with A and B colliding with
\* neither, the result is [A, B].
C1_GreedyFirstOccurrence ==
    /\ \A k \in 0..(i - 1) :
          (k \in lsh.keys) <=>
             (\A j \in lsh.keys : j < k => ~Collide(SigAt(j), SigAt(k), threshold))
    /\ unique_docs = SelectAt(documents, lsh.keys, 0)
    /\ (/\ pc = "dedup_done"
        /\ Len(documents) = 3
        /\ Collide(SigAt(0), SigAt(1), threshold)
        /\ ~Collide(SigAt(0), SigAt(2), threshold)
        /\ ~Collide(SigAt(1), SigAt(2), threshold))
       => unique_docs = <<documents[1], documents[3]>>

C1_Witness ==
    /\ pc = "dedup_done"
    /\ Len(documents) = 3
    /\ documents[1] # documents[2]
    /\ Collide(SigAt(0), SigAt(1), threshold)
    /\ ~Collide(SigAt(0), SigAt(2), threshold)
    /\ ~Collide(SigAt(1), SigAt(2), threshold)
    /\ unique_docs = <<documents[1], documents[3]>>

\* C2: a document identical to an earlier document of the input is never
\* emitted; two identical documents in a row with threshold 0.7 give one
\* output document, the first.
C2_IdenticalNeverEmitted ==
    /\ \A k \in 0..(i - 1) :
          (\E j \in 0..(k - 1) : documents[j + 1] = documents[k + 1])
             => k \notin lsh.keys
    /\ \A p, q \in 1..Len(unique_docs) : p # q => unique_docs[p] # unique_docs[q]
    /\ (/\ pc = "dedup_done"
        /\ threshold = 7
        /\ Len(documents) = 2
        /\ documents[1] = documents[2])
       => unique_docs = <<documents[1]>>

C2_Witness ==
    /\ pc = "dedup_done"
    /\ threshold = 7
    /\ Len(documents) = 2
    /\ documents[1] = documents[2]
    /\ documents[1] # <<>>
    /\ unique_docs = <<documents[1]>>

\* C3: after any prefix the index holds one entry per accepted document of
\* the prefix, keyed by the document's position, with one bucket entry per
\* band, and nothing for a rejected document.
C3_IndexHoldsAcceptedOnly ==
    /\ lsh.keys \subseteq 0..(i - 1)
    /\ Cardinality(lsh.keys) = Len(unique_docs)
    /\ unique_docs = SelectAt(documents, lsh.keys, 0)
    /\ lsh.hashtables =
          {[band |-> b, H |-> BandHash(SigAt(k), threshold, b), key |-> k] :
              k \in lsh.keys, b \in 0..(Bands(threshold) - 1)}
    /\ \A k \in 0..(i - 1) :
          k \notin lsh.keys => \A e \in lsh.hashtables : e.key # k
    /\ detector = "DataCleaner" => doc_hashes = {<<k, SigAt(k)>> : k \in lsh.keys}

C3_Witness ==
    /\ pc = "dedup_done"
    /\ detector = "DataCleaner"
    /\ Len(documents) = 3
    /\ lsh.keys = {0, 2}
    /\ Cardinality(lsh.hashtables) = 2 * Bands(threshold)

\* the number of documents the detector drops at threshold th
Dropped(th) ==
    Len(documents) - Len(deduplicate_minhash(detector, th, permutations, documents))

\* C4: for a fixed input and fixed permutations, a higher threshold never
\* drops more documents and a lower threshold never drops fewer.
C4_ThresholdMonotone ==
    pc = "dedup_done" =>
        \A t2 \in Thresholds :
            /\ t2 > threshold => Dropped(t2) <= Len(documents) - Len(unique_docs)
            /\ t2 < threshold => Dropped(t2) >= Len(documents) - Len(unique_docs)

-----------------------------------------------------------------------------
(* Properties of the PII redactors and the repetition compressors *)

ScenarioOut ==
    <<"C","o","n","t","a","c","t"," ","m","e"," ","a","t"," ","[","E","M",
      "A","I","L","]"," ","o","r"," ","[","P","H","O","N","E","]">>
ScenarioOutRemoved ==
    <<"C","o","n","t","a","c","t"," ","m","e"," ","a","t"," ","[","E","M",
      "A","I","L","_","R","E","M","O","V","E","D","]"," ","o","r"," ","[",
      "P","H","O","N","E","_","R","E","M","O","V","E","D","]">>

PiiOps == {"strip_pii", "DataCleaner.remove_pii"}
CompressOps == {"remove_repetitive_ngrams", "DataCleaner.remove_repetitive_ngrams"}

C6_PiiIdempotent ==
    (Len(ops) = 2 /\ ops[1] = ops[2] /\ ops[1] \in PiiOps) => hist[3] = hist[2]

C6_Witness ==
    /\ pc = "pii_twice"
    /\ ops = <<"strip_pii", "strip_pii">>
    /\ text = EmailChunk \o <<" ">> \o PhoneChunk
    /\ hist[2] = EMAIL \o <<" ">> \o PHONE
    /\ hist[3] = hist[2]

\* C7: the whitespace token count of the output of PII redaction and of
\* repetition compression is at most that of the input.
C7_TokenCountNeverGrows ==
    \A k \in 1..Len(ops) : TokenCount(hist[k + 1]) <= TokenCount(hist[k])

C7_Witness ==
    /\ pc = "ngram_once"
    /\ ops = <<"remove_repetitive_ngrams">>
    /\ TokenCount(hist[1]) = 4
    /\ TokenCount(hist[2]) = 2

\* C8: every run of two or more consecutive occurrences of an n-gram that
\* occurs at least T times is reduced to one occurrence: no such run is left
\* in the output (class_3.remove_repetitive_ngrams, n-gram length n).
C8_RunsOfTwoCollapsed ==
    (Len(ops) >= 1 /\ ops[1] = "remove_repetitive_ngrams") =>
        \A g \in Range(Repetitive(Ngrams(Split(hist[1]), window), rep_threshold)) :
            \A p \in 1..Len(hist[2]) : PhraseRun(Join(g), hist[2], p, 0)[1] < 2

\* no word group of length 1..N is directly followed by itself in t
NoAdjacentRepeat(t) ==
    LET words == Split(t)
    IN  \A n \in 1..window : \A k \in 1..(Len(words) - 2 * n + 1) :
            SubSeq(words, k, k + n - 1) # SubSeq(words, k + n, k + 2 * n - 1)

\* C9: only strictly adjacent repeats are removed: an occurrence of an
\* over-threshold n-gram separated from the previous one by unrelated text
\* stays, so a document without any adjacent repeat keeps all its words.
C9_OnlyAdjacentRemoved ==
    (Len(ops) >= 1 /\ ops[1] \in CompressOps /\ NoAdjacentRepeat(hist[1]))
        => Split(hist[2]) = Split(hist[1])

\* C10: compression converges in one application: a compressor applied to
\* its own output gives that output back.
C10_ConvergesInOnePass ==
    (Len(ops) = 2 /\ ops[1] = ops[2] /\ ops[1] \in CompressOps) => hist[3] = hist[2]

LeadingPhrase ==
    <<"M","a","c","h","i","n","e"," ","l","e","a","r","n","i","n","g"," ",
      "i","s">>
SentenceEnd ==
    <<"f","a","s","c","i","n","a","t","i","n","g",".">>

\* str.count: the occurrences of lit in s (lit does not overlap itself here)
Occurrences(lit, s) == Cardinality({p \in 1..Len(s) : LiteralAt(lit, s, p) # 0})

\* C11: with N = 3 and T = 3 the sentence repeated three times is compressed
\* to a text that holds "Machine learning is" exactly once and still holds
\* the punctuation token "fascinating.".
C11_DemoSentenceCompressed ==
    (/\ Len(ops) >= 1
     /\ ops[1] \in CompressOps
     /\ text = DemoRepeatText
     /\ window = 3
     /\ rep_threshold = 3)
        => /\ Occurrences(LeadingPhrase, hist[2]) = 1
           /\ SentenceEnd \in Range(Split(hist[2]))

\* the texts that hold one card number and no other digit
CardTexts == {CardChunk, DemoCardText, SpacedCardText, TwelveDigits}

HasDigit(s) == \E p \in 1..Len(s) : IsDigit(s[p])

\* C17: a digit sequence of 12 to 19 digits, contiguous or in groups of four
\* separated by a hyphen or a space, is replaced by the credit card
\* placeholder: no digit of it remains in the output of the redactor.
C17_CardDigitsRedacted ==
    \A k \in 1..Len(ops) :
        (ops[k] \in PiiOps /\ hist[k] \in CardTexts) => ~HasDigit(hist[k + 1])

NoC3Match(s) ==
    /\ ~HasMatch(<<"c3_email">>, s)
    /\ ~HasMatch(<<"c3_card">>, s)
    /\ ~HasMatch(<<"c3_phone">>, s)

NoMainMatch(s) == \A k \in 1..Len(pii_patterns) : ~HasMatch(<<pii_patterns[k][1]>>, s)

\* C19: redaction never fails and is a no-op without matches: on every text,
\* the empty one included, both redactors return; a text that no pattern of
\* the redactor matches is returned as it is.  (Len of the result is defined
\* exactly when the function returns a text.)
C19_NoMatchNoOp ==
    /\ pc = "pii" => (Len(strip_pii(text)) >= 0 /\ Len(remove_pii_doc(text)) >= 0)
    /\ \A k \in 1..Len(ops) :
          /\ (ops[k] = "strip_pii" /\ NoC3Match(hist[k])) => hist[k + 1] = hist[k]
          /\ (ops[k] = "DataCleaner.remove_pii" /\ NoMainMatch(hist[k])) => hist[k + 1] = hist[k]

C19_Witness ==
    /\ pc = "pii_once"
    /\ text = <<>>
    /\ ops = <<"DataCleaner.remove_pii">>
    /\ hist = <<<<>>, <<>>>>

-----------------------------------------------------------------------------
(* The near-duplicate detector on documents that differ in letter case,     *)
(* token order and token repetition                                         *)

CaseVocabulary == {<<"a">>, <<"A">>}

CaseRankings == {f \in [CaseVocabulary -> 1..Cardinality(CaseVocabulary)] :
                    \A x, y \in CaseVocabulary : x # y => f[x] # f[y]}

\* "a", "A", "a a", "A a", "a A"
CaseDocs == {<<"a">>, <<"A">>, <<"a", " ", "a">>, <<"A", " ", "a">>, <<"a", " ", "A">>}

CaseDocLists == {<<d>> : d \in CaseDocs} \cup {<<d, e>> : d, e \in CaseDocs}

InitDedupCase ==
    /\ pc = "dedup_loop"
    /\ detector \in {"DataCleaner", "class_3"}
    /\ documents \in CaseDocLists
    /\ threshold \in Thresholds
    /\ permutations \in [1..NumPerm -> CaseRankings]
    /\ i = 0
    /\ lsh = EmptyLsh
    /\ doc_hashes = {}
    /\ unique_docs = <<>>
    /\ TextIdle
    /\ PipeIdle
    /\ LangIdle

SpecDedupCase == InitDedupCase /\ [][NextDedup]_vars

\* the two documents have the same set of lowercased tokens
SameTokens(d, e) == Range(Split(Lower(d))) = Range(Split(Lower(e)))

\* C20: two documents with the same set of lowercased whitespace-separated
\* tokens (they differ only in letter case, token order or token repetition)
\* get the same signature, and the later of the two is rejected once the
\* detector has processed it.
C20_SignatureOfTokenSet ==
    \A j, k \in 1..Len(documents) :
        (j < k /\ i >= k /\ SameTokens(documents[j], documents[k])) =>
            /\ Signature(detector, documents[j], permutations)
                  = Signature(detector, documents[k], permutations)
            /\ (k - 1) \notin lsh.keys

-----------------------------------------------------------------------------
(* HTML cleaning and the language filter.  A markup tag is one element of   *)
(* a document; BeautifulSoup(doc, 'html.parser').get_text() drops the tags. *)

Tags == {"<p>", "</p>", "<script>", "</script>"}

\* get_text() from element p on; script_text tells whether the text inside
\* a script element is part of the result
RECURSIVE GetTextFrom(_, _, _, _)
GetTextFrom(doc, p, in_script, script_text) ==
    IF p > Len(doc) THEN <<>>
    ELSE IF doc[p] = "<script>" THEN GetTextFrom(doc, p + 1, TRUE, script_text)
    ELSE IF doc[p] = "</script>" THEN GetTextFrom(doc, p + 1, FALSE, script_text)
    ELSE IF doc[p] \in Tags THEN GetTextFrom(doc, p + 1, in_script, script_text)
    ELSE IF in_script /\ ~script_text THEN GetTextFrom(doc, p + 1, in_script, script_text)
    ELSE <<doc[p]>> \o GetTextFrom(doc, p + 1, in_script, script_text)

GetText(doc, script_text) == GetTextFrom(doc, 1, FALSE, script_text)

\* DataCleaner.clean_html on one document: script elements decomposed,
\* get_text(), whitespace runs to one space, strip
CleanHtmlDoc(doc) == Strip(ReSub(<<"space_run">>, <<" ">>, GetText(doc, FALSE)))

\* the loop of clean_html from document k on: empty texts are left out
RECURSIVE CleanHtmlFrom(_, _)
CleanHtmlFrom(docs, k) ==
    IF k > Len(docs) THEN <<>>
    ELSE (IF CleanHtmlDoc(docs[k]) # <<>> THEN <<CleanHtmlDoc(docs[k])>> ELSE <<>>)
         \o CleanHtmlFrom(docs, k + 1)

Reverse(list) == [k \in 1..Len(list) |-> list[Len(list) + 1 - k]]

\* clean_html that returns the cleaned documents last first
clean_html_Reversed(docs) == Reverse(CleanHtmlFrom(docs, 1))

\* DataCleaner.clean_html
clean_html(docs) == CleanHtmlFrom(docs, 1)

MinTextLen == 10

\* len(clean_text) < 10, without the strip
TooShort_Untrimmed(clean_text) == Len(clean_text) < MinTextLen

\* len(clean_text.strip()) < 10
TooShort(clean_text) == Len(Strip(clean_text)) < MinTextLen

\* DataCleaner.target_languages (default) and the lang of class_3
TargetLanguages == {"en", "zh-cn"}
Class3Lang == "en"

HasLetter(t) == \E p \in 1..Len(t) : IsLetter(t[p])

\* what langdetect.detect can do on a text: return a language code, or
\* raise LangDetectException ("fail"); a text without a letter has no
\* feature and always raises
DetectOutcomes(t) == IF HasLetter(t) THEN {"en", "fr", "fail"} ELSE {"fail"}

LangStart == [filtered_docs |-> <<>>, log |-> <<>>]

LogEntry(called, result, kept) == [called |-> called, result |-> result, kept |-> kept]

\* the loop body where a document whose detection fails is kept
LangIter_KeepOnFail(impl, st, doc, outcome, script_text) ==
    [filtered_docs |-> Append(st.filtered_docs, doc),
     log |-> Append(st.log, LogEntry(TRUE, outcome, TRUE))]

\* one iteration of the filter loop with the outcome of detect, as the state
\* after it (DataCleaner.detect_language / class_3.clean_html_and_filter_lang)
LangIter(impl, st, doc, outcome, script_text) ==
    LET clean_text == GetText(doc, script_text)
    IN  IF impl = "DataCleaner"
        THEN IF TooShort(clean_text)
             THEN [st EXCEPT !.log = Append(@, LogEntry(FALSE, "none", FALSE))]
             ELSE IF outcome = "fail"
             THEN [st EXCEPT !.log = Append(@, LogEntry(TRUE, "fail", FALSE))]
             ELSE IF outcome \in TargetLanguages
             THEN [filtered_docs |-> Append(st.filtered_docs, doc),
                   log |-> Append(st.log, LogEntry(TRUE, outcome, TRUE))]
             ELSE [st EXCEPT !.log = Append(@, LogEntry(TRUE, outcome, FALSE))]
        ELSE IF outcome = "fail"
             THEN [st EXCEPT !.log = Append(@, LogEntry(TRUE, "fail", FALSE))]
             ELSE IF outcome = Class3Lang
             THEN [filtered_docs |-> Append(st.filtered_docs, Strip(clean_text)),
                   log |-> Append(st.log, LogEntry(TRUE, outcome, TRUE))]
             ELSE [st EXCEPT !.log = Append(@, LogEntry(TRUE, outcome, FALSE))]

\* the text detect is called on, when it is called
DetectArg(impl, doc, script_text) ==
    IF impl = "DataCleaner" THEN GetText(doc, script_text)
    ELSE Strip(GetText(doc, script_text))

\* the whole loop from document k on, outcomes[k] being what detect does on
\* document k
RECURSIVE LangFrom(_, _, _, _, _, _)
LangFrom(impl, st, docs, outcomes, script_text, k) ==
    IF k > Len(docs) THEN st
    ELSE LangFrom(impl, LangIter(impl, st, docs[k], outcomes[k], script_text),
                  docs, outcomes, script_text, k + 1)

\* DataCleaner.detect_language(documents)
detect_language(docs, outcomes, script_text) ==
    LangFrom("DataCleaner", LangStart, docs, outcomes, script_text, 1).filtered_docs

\* the outcomes detect can have on the documents of a list
OutcomeLists(impl, docs, script_text) ==
    {o \in [1..Len(docs) -> {"en", "fr", "fail"}] :
        \A k \in 1..Len(docs) : o[k] \in DetectOutcomes(DetectArg(impl, docs[k], script_text))}

HtmlDoc ==
    <<"<p>", "a", " ", "a", " ", "a", " ", "a", " ", "a", " ", "a", "</p>">>
ShortDoc ==
    <<"<p>", "a", " ", "a", "</p>">>
ScriptDoc ==
    <<"<script>", "a", " ", "a", " ", "a", " ", "a", " ", "a", " ", "a", "</script>">>
PaddedDoc ==
    <<" ", "a", " ", "a", " ", "a", " ", "a", " ", "a", " ">>
EmailDoc ==
    <<"a", "@", "b", ".", "c", "o", " ", "a", " ", "a", " ", "a">>

LangDocs == {HtmlDoc, ShortDoc, ScriptDoc, PaddedDoc, TwelveDigits}

LangDocLists == UNION {[1..n -> LangDocs] : n \in 0..MaxDocs}

InitLang ==
    /\ pc = "lang_loop"
    /\ lang_filter \in {"DataCleaner", "class_3"}
    /\ raw_docs \in LangDocLists
    /\ bs4_script_text \in BOOLEAN
    /\ doc_idx = 0
    /\ filtered_docs = <<>>
    /\ lang_log = <<>>
    /\ PipeIdle
    /\ DedupIdle
    /\ TextIdle

CurLang == [filtered_docs |-> filtered_docs, log |-> lang_log]

\* the next document, with what detect does on it
LangStep(outcome) ==
    /\ pc = "lang_loop"
    /\ doc_idx < Len(raw_docs)
    /\ LET st == LangIter(lang_filter, CurLang, raw_docs[doc_idx + 1], outcome, bs4_script_text)
       IN  /\ filtered_docs' = st.filtered_docs
           /\ lang_log' = st.log
    /\ doc_idx' = doc_idx + 1
    /\ UNCHANGED <<pc, bs4_script_text, lang_filter, raw_docs>>
    /\ UNCHANGED <<pipeVars, dedupVars, textVars>>

NextDoc == raw_docs[doc_idx + 1]

\* DataCleaner only: the extracted text is too short, detect is not called
LangSkipShort ==
    /\ pc = "lang_loop"
    /\ doc_idx < Len(raw_docs)
    /\ lang_filter = "DataCleaner"
    /\ TooShort(GetText(NextDoc, bs4_script_text))
    /\ LangStep("none")

Detected ==
    /\ pc = "lang_loop"
    /\ doc_idx < Len(raw_docs)
    /\ lang_filter = "DataCleaner" => ~TooShort(GetText(NextDoc, bs4_script_text))

Accepted(outcome) ==
    IF lang_filter = "DataCleaner" THEN outcome \in TargetLanguages
    ELSE outcome = Class3Lang

\* detect returns an accepted language: the document is kept
LangKeep ==
    /\ Detected
    /\ \E outcome \in DetectOutcomes(DetectArg(lang_filter, NextDoc, bs4_script_text)) \ {"fail"} :
          Accepted(outcome) /\ LangStep(outcome)

\* detect returns another language: the document is dropped
LangDrop ==
    /\ Detected
    /\ \E outcome \in DetectOutcomes(DetectArg(lang_filter, NextDoc, bs4_script_text)) \ {"fail"} :
          ~Accepted(outcome) /\ LangStep(outcome)

\* detect raises: the exception is caught and the loop goes on
LangFail ==
    /\ Detected
    /\ LangStep("fail")

\* the loop is over: DataCleaner records the count and returns
LangReturn ==
    /\ pc = "lang_loop"
    /\ doc_idx = Len(raw_docs)
    /\ pc' = "lang_done"
    /\ stats' = IF lang_filter = "DataCleaner"
                THEN [stats EXCEPT !.after_language_detection = Len(filtered_docs)]
                ELSE stats
    /\ UNCHANGED <<input_documents, stages, runs>>
    /\ UNCHANGED <<langVars, dedupVars, textVars>>

NextLang == LangSkipShort \/ LangKeep \/ LangDrop \/ LangFail \/ LangReturn

SpecLang == InitLang /\ [][NextLang]_vars

\* the (0-based) positions of the handled documents that were kept
KeptAt == {k - 1 : k \in {j \in 1..Len(lang_log) : lang_log[j].kept}}

\* C14: DataCleaner.detect_language keeps a document iff its extracted text,
\* trimmed, has at least 10 characters and the detected language is in the
\* accepted set; on a shorter text the document is dropped and detect is not
\* called.
C14_KeepIffLongAndAccepted ==
    lang_filter = "DataCleaner" =>
        /\ Len(lang_log) = doc_idx
        /\ \A k \in 1..doc_idx :
              LET t == Strip(GetText(raw_docs[k], bs4_script_text))
                  e == lang_log[k]
              IN  /\ e.kept <=> (Len(t) >= MinTextLen /\ e.result \in TargetLanguages)
                  /\ e.called <=> Len(t) >= MinTextLen
        /\ filtered_docs = SelectAt(SubSeq(raw_docs, 1, doc_idx), KeptAt, 0)

C14_Witness ==
    /\ pc = "lang_done"
    /\ lang_filter = "DataCleaner"
    /\ raw_docs = <<ShortDoc, HtmlDoc>>
    /\ ~lang_log[1].called
    /\ lang_log[2].result = "en"
    /\ filtered_docs = <<HtmlDoc>>

-----------------------------------------------------------------------------
(* DataCleaner.process_pipeline *)

\* remove_pii that leaves out the documents it redacted something in
remove_pii_DropRedacted(docs) ==
    SelectAt(docs, {k \in 0..(Len(docs) - 1) : remove_pii_doc(docs[k + 1]) = docs[k + 1]}, 0)

\* DataCleaner.remove_pii(documents)
remove_pii(docs) == [k \in 1..Len(docs) |-> remove_pii_doc(docs[k])]

\* DataCleaner.remove_repetitive_ngrams(documents, max_ngram, threshold)
remove_repetitive_ngrams_docs(docs, max_ngram, th) ==
    [k \in 1..Len(docs) |-> remove_repetitive_ngrams_doc(docs[k], max_ngram, th)]

DefaultMaxNgram == 3
DefaultRepThreshold == 3

\* count_tokens that counts the documents
count_tokens_Docs(docs) == Len(docs)

\* DataCleaner.count_tokens
RECURSIVE count_tokens(_)
count_tokens(docs) ==
    IF docs = <<>> THEN 0
    ELSE TokenCount(docs[1]) + count_tokens(Tail(docs))

\* MinHashLSH.__init__ raises ValueError unless 0.0 <= threshold <= 1.0
ValidLshThreshold(th) == th >= 0 /\ th <= 10

\* the tokens of the cleaned pipeline documents: "a" and "a@b.co"
PipeVocabulary == {<<"a">>, EmailChunk}

PipeRankings == {f \in [PipeVocabulary -> 1..Cardinality(PipeVocabulary)] :
                    \A x, y \in PipeVocabulary : x # y => f[x] # f[y]}

PipeDocs == {HtmlDoc, EmailDoc, ScriptDoc}

PipeInputs == UNION {[1..n -> PipeDocs] : n \in 0..MaxDocs}

\* similarity_threshold of the constructor, in tenths: 0.7 and 1.5
PipeThresholds == {7, 15}

InitPipeline ==
    /\ pc = "load"
    /\ input_documents \in PipeInputs
    /\ threshold \in PipeThresholds
    /\ bs4_script_text \in BOOLEAN
    /\ stats = ZeroStats
    /\ stages = <<>>
    /\ runs = <<>>
    /\ detector = "DataCleaner"
    /\ documents = <<>>
    /\ permutations = <<>>
    /\ i = 0
    /\ lsh = EmptyLsh
    /\ doc_hashes = {}
    /\ unique_docs = <<>>
    /\ lang_filter = "none"
    /\ raw_docs = <<>>
    /\ doc_idx = 0
    /\ filtered_docs = <<>>
    /\ lang_log = <<>>
    /\ TextIdle

pipeFrame == <<detector, threshold, permutations, i, lsh, doc_hashes, unique_docs,
               input_documents, runs, textVars, langVars>>

StageCall(name, input, output) == [name |-> name, input |-> input, output |-> output]

\* documents = input_documents; the initial statistics
PipelineLoad ==
    /\ pc = "load"
    /\ documents' = input_documents
    /\ stats' = [stats EXCEPT !.initial_docs = Len(input_documents),
                              !.initial_tokens = count_tokens(input_documents)]
    /\ pc' = "detect_language"
    /\ UNCHANGED stages
    /\ UNCHANGED pipeFrame

\* documents = self.detect_language(documents)
PipelineDetectLanguage ==
    /\ pc = "detect_language"
    /\ \E outcomes \in OutcomeLists("DataCleaner", documents, bs4_script_text) :
          LET out == detect_language(documents, outcomes, bs4_script_text)
          IN  /\ documents' = out
              /\ stats' = [stats EXCEPT !.after_language_detection = Len(out)]
              /\ stages' = Append(stages, StageCall("detect_language", documents, out))
    /\ pc' = "clean_html"
    /\ UNCHANGED pipeFrame

\* documents = self.clean_html(documents)
PipelineCleanHtml ==
    /\ pc = "clean_html"
    /\ LET out == clean_html(documents)
       IN  /\ documents' = out
           /\ stats' = [stats EXCEPT !.after_html_cleaning = Len(out)]
           /\ stages' = Append(stages, StageCall("clean_html", documents, out))
    /\ pc' = "deduplicate_minhash"
    /\ UNCHANGED pipeFrame

\* documents = self.deduplicate_minhash(documents)
PipelineDeduplicate ==
    /\ pc = "deduplicate_minhash"
    /\ ValidLshThreshold(threshold)
    /\ \E perms \in [1..NumPerm -> PipeRankings] :
          LET out == deduplicate_minhash(detector, threshold, perms, documents)
          IN  /\ documents' = out
              /\ stats' = [stats EXCEPT !.after_deduplication = Len(out)]
              /\ stages' = Append(stages, StageCall("deduplicate_minhash", documents, out))
    /\ pc' = "remove_pii"
    /\ UNCHANGED pipeFrame

\* MinHashLSH(threshold=...) raises in deduplicate_minhash: the run ends
PipelineDeduplicateRaises ==
    /\ pc = "deduplicate_minhash"
    /\ ~ValidLshThreshold(threshold)
    /\ pc' = "raised"
    /\ UNCHANGED <<documents, stats, stages>>
    /\ UNCHANGED pipeFrame

\* documents = self.remove_pii(documents)
PipelineRemovePii ==
    /\ pc = "remove_pii"
    /\ LET out == remove_pii(documents)
       IN  /\ documents' = out
           /\ stats' = [stats EXCEPT !.after_pii_removal = Len(out)]
           /\ stages' = Append(stages, StageCall("remove_pii", documents, out))
    /\ pc' = "remove_repetitive_ngrams"
    /\ UNCHANGED pipeFrame

\* documents = self.remove_repetitive_ngrams(documents)
PipelineRemoveNgrams ==
    /\ pc = "remove_repetitive_ngrams"
    /\ LET out == remove_repetitive_ngrams_docs(documents, DefaultMaxNgram, DefaultRepThreshold)
       IN  /\ documents' = out
           /\ stats' = [stats EXCEPT !.after_ngram_removal = Len(out)]
           /\ stages' = Append(stages, StageCall("remove_repetitive_ngrams", documents, out))
    /\ pc' = "count_final"
    /\ UNCHANGED pipeFrame

\* the final token count; return documents
PipelineReturn ==
    /\ pc = "count_final"
    /\ stats' = [stats EXCEPT !.final_tokens = count_tokens(documents)]
    /\ pc' = "returned"
    /\ UNCHANGED <<documents, stages>>
    /\ UNCHANGED pipeFrame

NextPipeline ==
    \/ PipelineLoad
    \/ PipelineDetectLanguage
    \/ PipelineCleanHtml
    \/ PipelineDeduplicate
    \/ PipelineDeduplicateRaises
    \/ PipelineRemovePii
    \/ PipelineRemoveNgrams
    \/ PipelineReturn

SpecPipeline == InitPipeline /\ [][NextPipeline]_vars

StageNames ==
    <<"detect_language", "clean_html", "deduplicate_minhash", "remove_pii",
      "remove_repetitive_ngrams">>

\* the per-stage count of stage k in a statistics record
StageCount(st, k) ==
    CASE k = 1 -> st.after_language_detection
      [] k = 2 -> st.after_html_cleaning
      [] k = 3 -> st.after_deduplication
      [] k = 4 -> st.after_pii_removal
      [] k = 5 -> st.after_ngram_removal

\* the number of whitespace-separated tokens of a document list: the
\* positions where a token starts
TokenStarts(docs) ==
    UNION {{<<k, p>> : p \in {q \in 1..Len(docs[k]) :
                                /\ ~IsSpace(docs[k][q])
                                /\ (q = 1 \/ IsSpace(docs[k][q - 1]))}} :
           k \in 1..Len(docs)}

\* C12: process_pipeline runs language filter, HTML cleaning, near-duplicate
\* detection, PII redaction, repetition compression in this order, each on
\* the list the previous stage returned; initial_docs and initial_tokens are
\* those of the raw input and are there before the first stage runs; each
\* per-stage count is the length of the stage's output; final_tokens is the
\* token count of the returned list.
C12_FixedStageOrder ==
    /\ Len(stages) <= Len(StageNames)
    /\ \A k \in 1..Len(stages) :
          /\ stages[k].name = StageNames[k]
          /\ stages[k].input = (IF k = 1 THEN input_documents ELSE stages[k - 1].output)
          /\ StageCount(stats, k) = Len(stages[k].output)
    /\ (stages # <<>> \/ pc = "detect_language") =>
          /\ stats.initial_docs = Len(input_documents)
          /\ stats.initial_tokens = Cardinality(TokenStarts(input_documents))
    /\ pc = "returned" =>
          /\ Len(stages) = Len(StageNames)
          /\ documents = stages[Len(stages)].output
          /\ stats.final_tokens = Cardinality(TokenStarts(documents))

C12_Witness ==
    /\ pc = "returned"
    /\ input_documents = <<HtmlDoc, HtmlDoc, ScriptDoc>>
    /\ stats.initial_docs = 3
    /\ stats.after_language_detection = 2
    /\ stats.after_html_cleaning = 2
    /\ stats.after_deduplication = 1
    /\ stats.after_ngram_removal = 1
    /\ stats.final_tokens < stats.initial_tokens

\* the documented ranges: 0 < threshold <= 1, window >= 2, repetition
\* threshold >= 2
ValidConfig ==
    /\ threshold > 0
    /\ threshold <= 10
    /\ DefaultMaxNgram >= 2
    /\ DefaultRepThreshold >= 2

\* C13: with a configuration outside the documented ranges the run ends in a
\* configuration error raised before any stage runs: no stage has executed
\* and no per-stage statistic has been written.
C13_InvalidConfigFailsFast ==
    (detector = "DataCleaner" /\ input_documents # <<>> /\ ~ValidConfig) =>
        /\ stages = <<>>
        /\ \A k \in 1..Len(StageNames) : StageCount(stats, k) = 0
        /\ pc \in {"load", "detect_language", "raised"}

\* the strictly increasing maps from 1..n to 1..m
IncreasingMaps(n, m) ==
    {f \in [1..n -> 1..m] : \A a, b \in 1..n : a < b => f[a] < f[b]}

\* what a stage makes of a document that survives it
StageImage(name, doc) ==
    CASE name = "detect_language" -> doc
      [] name = "clean_html" -> CleanHtmlDoc(doc)
      [] name = "deduplicate_minhash" -> doc
      [] name = "remove_pii" -> remove_pii_doc(doc)
      [] name = "remove_repetitive_ngrams" ->
            remove_repetitive_ngrams_doc(doc, DefaultMaxNgram, DefaultRepThreshold)

\* C16: every stage preserves order: the documents of a stage's output come
\* from input documents at strictly increasing positions, so none is
\* reordered or duplicated and the output is not longer than the input.
C16_OrderPreserved ==
    \A k \in 1..Len(stages) :
        LET in == stages[k].input
            out == stages[k].output
        IN  /\ Len(out) <= Len(in)
            /\ \E f \in IncreasingMaps(Len(out), Len(in)) :
                  \A j \in 1..Len(out) : out[j] = StageImage(stages[k].name, in[f[j]])

C16_Witness ==
    /\ pc = "returned"
    /\ input_documents = <<HtmlDoc, ScriptDoc, EmailDoc>>
    /\ stages[1].output = <<HtmlDoc, EmailDoc>>
    /\ Len(stages[3].output) = 2
    /\ documents[2] = EMAIL_REMOVED \o <<" ", "a", " ", "a", " ", "a">>

-----------------------------------------------------------------------------
(* The near-duplicate detector on documents without a token *)

\* "", " ", "a", "b"
BlankDocs == {<<>>, <<" ">>, <<"a">>, <<"b">>}

BlankDocLists == UNION {[1..n -> BlankDocs] : n \in 0..MaxDocs}

InitDedupBlank ==
    /\ pc = "dedup_loop"
    /\ detector \in {"DataCleaner", "class_3"}
    /\ documents \in BlankDocLists
    /\ threshold \in Thresholds
    /\ permutations \in [1..NumPerm -> Rankings]
    /\ i = 0
    /\ lsh = EmptyLsh
    /\ doc_hashes = {}
    /\ unique_docs = <<>>
    /\ TextIdle
    /\ PipeIdle
    /\ LangIdle

SpecDedupBlank == InitDedupBlank /\ [][NextDedup]_vars

\* str.split() of the document is the empty list
NoToken(doc) == Split(doc) = <<>>

\* the 0-based positions below k of the documents without a token
BlankBefore(k) == {j \in 0..(k - 1) : NoToken(documents[j + 1])}

\* C21: a document that is empty or holds whitespace only is handled like any
\* other document: its signature is the one of a MinHash that was never
\* updated, it is emitted iff no document accepted before it collides with
\* it (so the first such document of the input is emitted and every later
\* one is dropped), and the pass goes on to the end of the input.
C21_BlankDocumentHandled ==
    /\ \A k \in BlankBefore(i) :
          /\ SigAt(k) = [r \in 1..NumPerm |-> MaxHash]
          /\ (k \in lsh.keys) <=>
                (\A j \in lsh.keys : j < k => ~Collide(SigAt(j), SigAt(k), threshold))
          /\ (k \in lsh.keys) <=> (BlankBefore(k) = {})
    /\ pc \in {"dedup_loop", "dedup_done"}
    /\ pc = "dedup_done" =>
          /\ i = Len(documents)
          /\ Len(unique_docs) >=
                (IF BlankBefore(i) = {} THEN 0 ELSE 1)

C21_Witness ==
    /\ pc = "dedup_done"
    /\ documents = <<<<"a">>, <<" ">>, <<>>>>
    /\ unique_docs = <<<<"a">>, <<" ">>>>

-----------------------------------------------------------------------------
(* The passes of the repetition compressor *)

\* DataCleaner: the document as it is when the pass for length n starts
PassInput(doc, n, th) == NgramPasses(doc, Split(doc), 2, n - 1, th)

\* DataCleaner: the n-grams the pass for length n finds with count >= th
PassCounted(doc, n, th) == Range(Repetitive(Ngrams(Split(doc), n), th))

\* C22: in a call of DataCleaner.remove_repetitive_ngrams the pass for each
\* length n from 2 to max_ngram counts the n-grams of the current text: every
\* n-gram it finds repeated is an n-gram of the document as rewritten by the
\* passes for the smaller lengths.
C22_PassCountsCurrentText ==
    \A k \in 1..Len(ops) :
        (/\ ops[k] = "DataCleaner.remove_repetitive_ngrams"
         /\ Len(Split(hist[k])) >= window)
        => \A n \in 2..window :
              PassCounted(hist[k], n, rep_threshold) \subseteq
                 Range(Ngrams(Split(PassInput(hist[k], n, rep_threshold)), n))

\* the text has no run of two or more whitespace characters and neither
\* starts nor ends with whitespace
Normalised(s) ==
    /\ \A p \in 1..(Len(s) - 1) : ~(IsSpace(s[p]) /\ IsSpace(s[p + 1]))
    /\ s # <<>> => (~IsSpace(s[1]) /\ ~IsSpace(s[Len(s)]))

\* C23: every document a repetition compressor returns has no run of two
\* or more whitespace characters and no leading or trailing whitespace,
\* whether or not an n-gram was collapsed in it.
C23_OutputWhitespaceNormalised ==
    \A k \in 1..Len(ops) :
        ops[k] \in CompressOps => Normalised(hist[k + 1])

-----------------------------------------------------------------------------
(* The language filter and script content *)

\* the text of a document outside its script and style elements
VisibleText(doc) == GetText(doc, FALSE)

\* C24: what the language filter decides for a document depends on the
\* visible text only: the text handed to detect is the visible text, every
\* kept document has a visible text of at least 10 characters (trimmed), and
\* a document class_3 returns is the trimmed visible text of an input
\* document, without script content.
C24_DecidedOnVisibleText ==
    /\ \A k \in 1..Len(lang_log) :
          lang_log[k].kept =>
             /\ DetectArg(lang_filter, raw_docs[k], bs4_script_text)
                   = DetectArg(lang_filter, raw_docs[k], FALSE)
             /\ ~TooShort(VisibleText(raw_docs[k]))
    /\ lang_filter = "class_3" =>
          \A j \in 1..Len(filtered_docs) :
              \E k \in 1..doc_idx : filtered_docs[j] = Strip(VisibleText(raw_docs[k]))

-----------------------------------------------------------------------------
(* The result of a finished detector pass *)

\* C29: when the detector has finished, no two emitted documents collide
\* with each other, every dropped document collides with a document emitted
\* before it, and the first document of a non-empty input is emitted (its
\* query ran against the empty index).
C29_EmittedPairwiseApart ==
    pc = "dedup_done" =>
        /\ \A j, k \in lsh.keys :
              j # k => ~Collide(SigAt(j), SigAt(k), threshold)
        /\ \A k \in (0..(Len(documents) - 1)) \ lsh.keys :
              \E j \in lsh.keys : j < k /\ Collide(SigAt(j), SigAt(k), threshold)
        /\ documents # <<>> =>
              /\ 0 \in lsh.keys
              /\ unique_docs # <<>>
              /\ unique_docs[1] = documents[1]

C29_Witness ==
    /\ pc = "dedup_done"
    /\ Len(documents) = 3
    /\ lsh.keys = {0, 1}
    /\ documents[3] # documents[1]
    /\ documents[3] # documents[2]
    /\ Collide(SigAt(1), SigAt(2), threshold)
    /\ ~Collide(SigAt(0), SigAt(2), threshold)

\* the input is a chain: the second document collides with the first, the
\* third with the second, and the third does not collide with the first
Chain ==
    /\ Len(documents) = 3
    /\ Collide(SigAt(0), SigAt(1), threshold)
    /\ Collide(SigAt(1), SigAt(2), threshold)
    /\ ~Collide(SigAt(0), SigAt(2), threshold)

\* C30: rejection is decided against the accepted documents only and is not
\* transitive: on a chain [A, B, C] the detector drops B and emits C, so the
\* result is [A, C]; the same documents in the order [B, A, C] give [B],
\* another output set.
C30_RejectionNotTransitive ==
    (pc = "dedup_done" /\ Chain) =>
        /\ unique_docs = <<documents[1], documents[3]>>
        /\ deduplicate_minhash(detector, threshold, permutations,
                               <<documents[2], documents[1], documents[3]>>)
              = <<documents[2]>>
        /\ {documents[2]} # {documents[1], documents[3]}

C30_Witness ==
    /\ pc = "dedup_done"
    /\ Chain
    /\ documents = <<<<"a">>, <<"b", " ", "a">>, <<"b">>>>
    /\ unique_docs = <<<<"a">>, <<"b">>>>

-----------------------------------------------------------------------------
(* The statistics of a completed run *)

\* C28: after a completed run the counts never grow from stage to stage,
\* the counts after PII redaction and after repetition compression equal the
\* count after deduplication and the number of returned documents, and all
\* eight fields are natural numbers; PII redaction and repetition
\* compression return one document per input document.
C28_CountsChain ==
    /\ pc = "returned" =>
          /\ stats.initial_docs >= stats.after_language_detection
          /\ stats.after_language_detection >= stats.after_html_cleaning
          /\ stats.after_html_cleaning >= stats.after_deduplication
          /\ stats.after_deduplication = stats.after_pii_removal
          /\ stats.after_pii_removal = stats.after_ngram_removal
          /\ stats.after_ngram_removal = Len(documents)
          /\ \A f \in DOMAIN stats : stats[f] \in Nat
    /\ \A k \in 1..Len(stages) :
          stages[k].name \in {"remove_pii", "remove_repetitive_ngrams"}
             => Len(stages[k].output) = Len(stages[k].input)

C28_Witness ==
    /\ pc = "returned"
    /\ input_documents = <<EmailDoc, ScriptDoc, EmailDoc>>
    /\ stats.initial_docs = 3
    /\ stats.after_language_detection = 3
    /\ stats.after_html_cleaning = 2
    /\ stats.after_deduplication = 1
    /\ stats.after_pii_removal = 1
    /\ stats.after_ngram_removal = 1
    /\ Len(documents) = 1

-----------------------------------------------------------------------------
(* Detector calls one after another on one DataCleaner *)

\* "a", "b a"
CallDocs == {<<"a">>, <<"b", " ", "a">>}

CallDocLists == {<<d>> : d \in CallDocs} \cup {<<d, e>> : d, e \in CallDocs}

InitDedupCalls ==
    /\ pc = "dedup_loop"
    /\ detector \in {"DataCleaner", "class_3"}
    /\ documents \in CallDocLists
    /\ threshold \in Thresholds
    /\ permutations \in [1..NumPerm -> Rankings]
    /\ i = 0
    /\ lsh = EmptyLsh
    /\ doc_hashes = {}
    /\ unique_docs = <<>>
    /\ TextIdle
    /\ PipeIdle
    /\ LangIdle

\* the loop is over: DataCleaner records the count; return unique_docs
\* (stages keeps the calls made so far)
DedupCallReturn ==
    /\ pc = "dedup_loop"
    /\ i = Len(documents)
    /\ pc' = "dedup_done"
    /\ stats' = IF detector = "DataCleaner"
                THEN [stats EXCEPT !.after_deduplication = Len(unique_docs)]
                ELSE stats
    /\ stages' = Append(stages, StageCall("deduplicate_minhash", documents, unique_docs))
    /\ UNCHANGED dedupVars
    /\ UNCHANGED <<input_documents, runs, textVars, langVars>>

\* the next call on the same object, with the same configuration
DedupCallStart ==
    /\ pc = "dedup_done"
    /\ Len(stages) < MaxCalls
    /\ documents' \in CallDocLists
    /\ LET st == CallStart(CurState)
       IN  /\ lsh' = st.lsh
           /\ doc_hashes' = st.doc_hashes
           /\ unique_docs' = st.unique_docs
    /\ i' = 0
    /\ pc' = "dedup_loop"
    /\ UNCHANGED <<detector, threshold, permutations>>
    /\ UNCHANGED <<pipeVars, textVars, langVars>>

NextDedupCalls == DedupCallStart \/ DedupAccept \/ DedupReject \/ DedupCallReturn

SpecDedupCalls == InitDedupCalls /\ [][NextDedupCalls]_vars

\* C25: the index lives for one detector call: it is empty when a call
\* starts, during a call it holds documents of that call only, and what a
\* call returns is what the detector returns on that input alone, whatever
\* calls were made before it on the same object.
C25_IndexPerCall ==
    /\ (pc = "dedup_loop" /\ i = 0) => lsh = EmptyLsh
    /\ lsh.keys \subseteq 0..(i - 1)
    /\ \A e \in lsh.hashtables :
          e.H = BandHash(SigAt(e.key), threshold, e.band)
    /\ pc = "dedup_done" =>
          unique_docs = deduplicate_minhash(detector, threshold, permutations, documents)
    /\ \A k \in 1..Len(stages) :
          stages[k].output =
             deduplicate_minhash(detector, threshold, permutations, stages[k].input)

C25_Witness ==
    /\ pc = "dedup_done"
    /\ Len(stages) = 2
    /\ stages[1].input = <<<<"b", " ", "a">>, <<"a">>>>
    /\ stages[1].output = <<<<"b", " ", "a">>>>
    /\ stages[2].input = <<<<"a">>>>
    /\ stages[2].output = <<<<"a">>>>

-----------------------------------------------------------------------------
(* process_pipeline runs on one DataCleaner, their stages interleaved *)

Runs == {1, 2}

\* the keys of DataCleaner.stats, in the order process_pipeline writes them
StatFields ==
    <<"initial_docs", "initial_tokens", "after_language_detection",
      "after_html_cleaning", "after_deduplication", "after_pii_removal",
      "after_ngram_removal", "final_tokens">>

\* the key a stage writes when it is done
StageField(name) ==
    CASE name = "detect_language" -> "after_language_detection"
      [] name = "clean_html" -> "after_html_cleaning"
      [] name = "deduplicate_minhash" -> "after_deduplication"
      [] name = "remove_pii" -> "after_pii_removal"
      [] name = "remove_repetitive_ngrams" -> "after_ngram_removal"

\* the assignments to self.stats of the steps of a run, as <<key, value>>
LoadWrites(docs) ==
    << <<"initial_docs", Len(docs)>>, <<"initial_tokens", count_tokens(docs)>> >>

\* a stage that also resets the final token count
StageWrites_ResetsFinal(name, out) ==
    << <<StageField(name), Len(out)>>, <<"final_tokens", 0>> >>

StageWrites(name, out) == << <<StageField(name), Len(out)>> >>

FinalWrites(docs) == << <<"final_tokens", count_tokens(docs)>> >>

\* self.stats after the assignments ws, in order
RECURSIVE ApplyWrites(_, _)
ApplyWrites(st, ws) ==
    IF ws = <<>> THEN st
    ELSE ApplyWrites([st EXCEPT ![ws[1][1]] = ws[1][2]], Tail(ws))

KeysOf(ws) == [k \in 1..Len(ws) |-> ws[k][1]]

\* a call of process_pipeline that has not executed anything yet
NewRun(input) ==
    [pc |-> "load", input |-> input, documents |-> <<>>, outcomes |-> <<>>,
     writes |-> <<>>, reported |-> ZeroStats]

\* one document, and two documents the first of which detect fails on
RunInputs == {<<HtmlDoc>>, <<TwelveDigits, EmailDoc>>}

\* the permutations of MinHash are those of its fixed seed, the same in
\* every call
RunPermutations == {[k \in 1..NumPerm |-> f] : f \in PipeRankings}

InitRuns ==
    /\ pc = "runs"
    /\ runs \in [Runs -> {NewRun(input) : input \in RunInputs}]
    /\ stats = ZeroStats
    /\ threshold \in PipeThresholds
    /\ bs4_script_text = FALSE
    /\ permutations \in RunPermutations
    /\ detector = "DataCleaner"
    /\ documents = <<>>
    /\ i = 0
    /\ lsh = EmptyLsh
    /\ doc_hashes = {}
    /\ unique_docs = <<>>
    /\ input_documents = <<>>
    /\ stages = <<>>
    /\ lang_filter = "none"
    /\ raw_docs = <<>>
    /\ doc_idx = 0
    /\ filtered_docs = <<>>
    /\ lang_log = <<>>
    /\ TextIdle

runsFrame == <<pc, dedupVars, textVars, langVars, input_documents, stages>>

\* run r executes one step: its local documents become out, self.stats takes
\* the assignments ws, the run goes on at next
RunStep(r, next, out, ws) ==
    /\ stats' = ApplyWrites(stats, ws)
    /\ runs' = [runs EXCEPT ![r].pc = next,
                            ![r].documents = out,
                            ![r].writes = @ \o KeysOf(ws)]
    /\ UNCHANGED runsFrame

\* documents = input_documents; the initial statistics
RunLoad(r) ==
    /\ runs[r].pc = "load"
    /\ RunStep(r, "detect_language", runs[r].input, LoadWrites(runs[r].input))

\* documents = self.detect_language(documents)
RunDetectLanguage(r) ==
    /\ runs[r].pc = "detect_language"
    /\ \E outcomes \in OutcomeLists("DataCleaner", runs[r].documents, bs4_script_text) :
          LET out == detect_language(runs[r].documents, outcomes, bs4_script_text)
          IN  /\ stats' = ApplyWrites(stats, StageWrites("detect_language", out))
              /\ runs' = [runs EXCEPT
                             ![r].pc = "clean_html",
                             ![r].documents = out,
                             ![r].outcomes = outcomes,
                             ![r].writes = @ \o KeysOf(StageWrites("detect_language", out))]
    /\ UNCHANGED runsFrame

\* documents = self.clean_html(documents)
RunCleanHtml(r) ==
    /\ runs[r].pc = "clean_html"
    /\ LET out == clean_html(runs[r].documents)
       IN  RunStep(r, "deduplicate_minhash", out, StageWrites("clean_html", out))

\* documents = self.deduplicate_minhash(documents)
RunDeduplicate(r) ==
    /\ runs[r].pc = "deduplicate_minhash"
    /\ ValidLshThreshold(threshold)
    /\ LET out == deduplicate_minhash(detector, threshold, permutations, runs[r].documents)
       IN  RunStep(r, "remove_pii", out, StageWrites("deduplicate_minhash", out))

\* MinHashLSH(threshold=...) raises in deduplicate_minhash: the run ends
RunDeduplicateRaises(r) ==
    /\ runs[r].pc = "deduplicate_minhash"
    /\ ~ValidLshThreshold(threshold)
    /\ RunStep(r, "raised", runs[r].documents, <<>>)

\* documents = self.remove_pii(documents)
RunRemovePii(r) ==
    /\ runs[r].pc = "remove_pii"
    /\ LET out == remove_pii(runs[r].documents)
       IN  RunStep(r, "remove_repetitive_ngrams", out, StageWrites("remove_pii", out))

\* documents = self.remove_repetitive_ngrams(documents)
RunRemoveNgrams(r) ==
    /\ runs[r].pc = "remove_repetitive_ngrams"
    /\ LET out == remove_repetitive_ngrams_docs(runs[r].documents,
                                                DefaultMaxNgram, DefaultRepThreshold)
       IN  RunStep(r, "count_final", out, StageWrites("remove_repetitive_ngrams", out))

\* the final token count; return documents: the caller finds the statistics
\* of the run in self.stats
RunReturn(r) ==
    /\ runs[r].pc = "count_final"
    /\ stats' = ApplyWrites(stats, FinalWrites(runs[r].documents))
    /\ runs' = [runs EXCEPT ![r].pc = "returned",
                            ![r].writes = @ \o KeysOf(FinalWrites(runs[r].documents)),
                            ![r].reported = stats']
    /\ UNCHANGED runsFrame

NextRuns ==
    \/ \E r \in Runs : RunLoad(r)
    \/ \E r \in Runs : RunDetectLanguage(r)
    \/ \E r \in Runs : RunCleanHtml(r)
    \/ \E r \in Runs : RunDeduplicate(r)
    \/ \E r \in Runs : RunDeduplicateRaises(r)
    \/ \E r \in Runs : RunRemovePii(r)
    \/ \E r \in Runs : RunRemoveNgrams(r)
    \/ \E r \in Runs : RunReturn(r)

SpecRuns == InitRuns /\ [][NextRuns]_vars

\* the lists a run on input produces when it is executed alone, detect
\* having the given outcomes: the input and the output of each stage
AloneDocs(input, outcomes) ==
    LET d1 == detect_language(input, outcomes, bs4_script_text)
        d2 == clean_html(d1)
        d3 == deduplicate_minhash(detector, threshold, permutations, d2)
        d4 == remove_pii(d3)
        d5 == remove_repetitive_ngrams_docs(d4, DefaultMaxNgram, DefaultRepThreshold)
    IN  <<input, d1, d2, d3, d4, d5>>

\* the statistics of that run
AloneStats(input, outcomes) ==
    LET d == AloneDocs(input, outcomes)
    IN  [initial_docs |-> Len(d[1]), initial_tokens |-> count_tokens(d[1]),
         after_language_detection |-> Len(d[2]), after_html_cleaning |-> Len(d[3]),
         after_deduplication |-> Len(d[4]), after_pii_removal |-> Len(d[5]),
         after_ngram_removal |-> Len(d[6]), final_tokens |-> count_tokens(d[6])]

\* C26: two runs whose stages are interleaved do not interfere, also on the
\* same DataCleaner: the documents a run returns and the statistics found
\* in self.stats when it returns are those of the run executed alone.
C26_InterleavedRunsIndependent ==
    \A r \in Runs :
        runs[r].pc = "returned" =>
            /\ runs[r].documents = AloneDocs(runs[r].input, runs[r].outcomes)[6]
            /\ runs[r].reported = AloneStats(runs[r].input, runs[r].outcomes)

\* the keys the step at a position of process_pipeline writes
Owner(at) ==
    CASE at = "load" -> {"initial_docs", "initial_tokens"}
      [] at \in Range(StageNames) -> {StageField(at)}
      [] at = "count_final" -> {"final_tokens"}
      [] OTHER -> {}

\* the number of keys a run has written when it is at a position
WrittenAt(at) ==
    CASE at = "load" -> 0
      [] at = "detect_language" -> 2
      [] at = "clean_html" -> 3
      [] at \in {"deduplicate_minhash", "raised"} -> 4
      [] at = "remove_pii" -> 5
      [] at = "remove_repetitive_ngrams" -> 6
      [] at = "count_final" -> 7
      [] at = "returned" -> 8

\* C27: in one run every key of the statistics is written once, in stage
\* order, by the step that owns it, so that a run that returns has written
\* all eight; a step changes no key it does not own; and from the return of
\* a run to the start of the next one the record stays as the run left it.
C27_StatsWrittenOncePerStage ==
    /\ [](\A r \in Runs :
            /\ runs[r].writes = SubSeq(StatFields, 1, WrittenAt(runs[r].pc))
            /\ (runs[r].pc = "returned" /\ \A q \in Runs \ {r} : runs[q].pc = "load")
                  => /\ stats = runs[r].reported
                     /\ stats = AloneStats(runs[r].input, runs[r].outcomes))
    /\ [][\A f \in DOMAIN stats :
             stats'[f] # stats[f] =>
                \E r \in Runs : runs'[r].pc # runs[r].pc /\ f \in Owner(runs[r].pc)]_vars

C27_Witness ==
    /\ runs[1].pc = "returned"
    /\ runs[2].pc = "load"
    /\ runs[1].input = <<TwelveDigits, EmailDoc>>
    /\ runs[1].writes = StatFields
    /\ stats = runs[1].reported
    /\ stats.initial_docs = 2
    /\ stats.after_language_detection = 1

=============================================================================
